---- MODULE Spec2Model ----
(***************************************************************************)
(* A model of src/app.py: a Flask application that stores one uploaded CSV *)
(* per session (upload_file), previews it (display_data), mails a datewise *)
(* summary (email_summary) and filters it for download or for a simulated  *)
(* delete (filter_action).                                                 *)
(*                                                                         *)
(* State: the upload folder (disk), the per-session cookie (session), the  *)
(* bytes each session last saved (owned, a history variable) and the       *)
(* outcome of the request handled last (last).                             *)
(***************************************************************************)
EXTENDS Integers, Sequences, FiniteSets, TLC

VARIABLES disk, session, owned, last

vars == <<disk, session, owned, last>>

(***************************************************************************)
(* Bounds.                                                                 *)
(***************************************************************************)
\* The largest number of data lines of an uploaded file.
MaxRows == 2

(***************************************************************************)
(* Values.                                                                 *)
(***************************************************************************)
\* Python's None: a form field or session key that is absent.
None == "<None>"
\* pandas' NaN in an object column: a cell with no value.
Missing == "<NaN>"
\* The value of a cell of a column the file does not have.
NoField == "<no field>"

date_col == "Order Date"
restaurant_col == "Restaurant Name"

ALLOWED_EXTENSIONS == {"csv"}

\* The texts a file holds in its 'Order Date' fields ("" is an empty field).
DateTexts == {"2024-01-05 08:00", "2024-01-05 10:30", "2024-01-06 08:00", "not-a-date", ""}
\* The texts a file holds in its 'Restaurant Name' fields.
RestaurantTexts == {"Pizza Place", "Sushi Bar", ""}
\* The value of the leading unnamed field of the lines of a file whose data
\* lines hold one field more than its header line (two lines of such a file
\* so carry the same value).
Labels == {101}

\* What the form of a filter_action request may hold.
DateInputs == {None, "", "2024-01-05", "2024-13-40", "NaT"}
RestaurantInputs == {"", "Pizza Place", "pizza place", "nan"}
ActionInputs == {"download", "delete", "purge"}
RecipientInputs == {None, "a@example.org"}

(***************************************************************************)
(* Files. A file is what pd.read_csv makes of its bytes: unreadable, or a  *)
(* header (the named columns among the two the program uses; every file    *)
(* has further columns the program never looks at) and data lines.         *)
(***************************************************************************)
Garbage == [readable |-> FALSE, header |-> {}, extra |-> FALSE, lines |-> <<>>]

LineRecs(cols, extra) ==
    [first : IF extra THEN Labels ELSE {0},
     date  : IF date_col \in cols THEN DateTexts ELSE {NoField},
     rest  : IF restaurant_col \in cols THEN RestaurantTexts ELSE {NoField}]

CsvBodies(n) ==
    UNION { UNION { { [readable |-> TRUE, header |-> cols, extra |-> e, lines |-> l] :
                        l \in UNION { [1..k -> LineRecs(cols, e)] : k \in (IF e THEN 1 ELSE 0)..n } } :
                    e \in BOOLEAN } :
            cols \in SUBSET {date_col, restaurant_col} }

Bodies == {Garbage} \cup CsvBodies(MaxRows)

(***************************************************************************)
(* pandas, as far as the program uses it.                                  *)
(***************************************************************************)
\* The field texts pd.read_csv reads as a missing value (its default
\* na_values, those of them that occur here).
NaValues == {"", "nan", "NaN", "NA", "null"}

NoneDf == [isNone |-> TRUE, columns |-> {}, rows |-> <<>>]

\* pd.read_csv(filepath) with its default index_col: the rows get the labels
\* 0, 1, 2, ... unless the data lines hold one field more than the header,
\* when the leading field of each line is its label. pos is the position of
\* the row in the file, which pandas does not keep: it is here for the
\* properties to speak about.
read_csv(body) ==
    [isNone  |-> FALSE,
     columns |-> body.header,
     rows    |-> [i \in 1..Len(body.lines) |->
                    [pos   |-> i,
                     label |-> IF body.extra THEN body.lines[i].first ELSE i - 1,
                     date  |-> IF body.lines[i].date \in NaValues
                               THEN Missing ELSE body.lines[i].date,
                     rest  |-> IF body.lines[i].rest \in NaValues
                               THEN Missing ELSE body.lines[i].rest]]]

\* df.empty
Empty(df) == Len(df.rows) = 0

\* pandas' NaT, and the timestamps of the texts that parse.
NaT == [d |-> 0, t |-> 0]
NatStrings == {"NaT", "nat", "nan", "NaN", ""}
Parseable == {"2024-01-05", "2024-01-05 08:00", "2024-01-05 10:30",
              "2024-01-06", "2024-01-06 08:00"}

\* pd.to_datetime(text) raises a ValueError (a ParserError, a month 13).
to_datetime_raises(text) == text \notin Parseable /\ text \notin NatStrings

\* pd.to_datetime(text), where it does not raise.
to_datetime(text) ==
    CASE text = "2024-01-05"       -> [d |-> 20240105, t |-> 0]
      [] text = "2024-01-05 08:00" -> [d |-> 20240105, t |-> 800]
      [] text = "2024-01-05 10:30" -> [d |-> 20240105, t |-> 1030]
      [] text = "2024-01-06"       -> [d |-> 20240106, t |-> 0]
      [] text = "2024-01-06 08:00" -> [d |-> 20240106, t |-> 800]
      [] OTHER                     -> NaT

\* One element of pd.to_datetime(series, errors='coerce').
to_datetime_coerce(v) ==
    IF v = Missing \/ to_datetime_raises(v) THEN NaT ELSE to_datetime(v)

\* Timestamp.date() and Series.dt.date: the calendar date; NaT stays NaT.
dt_date(ts) == ts.d

\* date == date, elementwise: NaT equals nothing, itself included.
date_eq(a, b) == a # NaT.d /\ b # NaT.d /\ a = b

\* One element of Series.astype(str): a missing value becomes the text 'nan'.
astype_str(v) == IF v = Missing THEN "nan" ELSE v

\* One element of Series.fillna(fill).
fillna(v, fill) == IF v = Missing THEN fill ELSE v

\* df[mask]: the rows the mask holds for, in their order.
RECURSIVE Select(_, _)
Select(rows, mask) ==
    IF Len(rows) = 0 THEN <<>>
    ELSE IF mask[1] THEN <<rows[1]>> \o Select(Tail(rows), Tail(mask))
         ELSE Select(Tail(rows), Tail(mask))

\* df.drop(labels): the rows whose label is none of labels.
drop(df, labels) ==
    [df EXCEPT !.rows = Select(df.rows, [i \in 1..Len(df.rows) |->
                                            df.rows[i].label \notin labels])]

\* filtered_df.index
index(df) == {df.rows[i].label : i \in 1..Len(df.rows)}

(***************************************************************************)
(* The filtering step of filter_action.                                    *)
(***************************************************************************)
\* As Truthy, had the code tested 'is not None'.
Truthy_IsNotNone(v) == v # None

\* Python's truth of a form value: None and the empty string are false.
Truthy(v) == v # None /\ v # ""

\* The state of the filtering step: filtered_df, active_filters and the
\* messages flashed.
StartFilter(df) == [df |-> df, active |-> <<>>, flashes |-> {}]

\* As DateClause, had the code treated a missing column as a filter nothing
\* passes, without a warning.
DateClause_MissingColumnDropsAll(st, filter_date_str) ==
    IF ~Truthy(filter_date_str) THEN st
    ELSE IF date_col \notin st.df.columns
    THEN [st EXCEPT !.df.rows = <<>>]
    ELSE IF to_datetime_raises(filter_date_str)
    THEN [st EXCEPT !.flashes = @ \cup {"Invalid date format entered."}]
    ELSE LET filter_date_dt == dt_date(to_datetime(filter_date_str))
             date_series == [i \in 1..Len(st.df.rows) |->
                               dt_date(to_datetime_coerce(st.df.rows[i].date))]
             mask == [i \in 1..Len(st.df.rows) |-> date_eq(date_series[i], filter_date_dt)]
         IN  [st EXCEPT !.df.rows = Select(st.df.rows, mask),
                        !.active = Append(@, [col |-> date_col, val |-> filter_date_str])]

\* The date filter (the first block of the try).
DateClause(st, filter_date_str) ==
    IF ~Truthy(filter_date_str) THEN st
    ELSE IF date_col \notin st.df.columns
    THEN [st EXCEPT !.flashes = @ \cup {"Column 'Order Date' not found for filtering."}]
    ELSE IF to_datetime_raises(filter_date_str)
    THEN [st EXCEPT !.flashes = @ \cup {"Invalid date format entered."}]
    ELSE LET filter_date_dt == dt_date(to_datetime(filter_date_str))
             date_series == [i \in 1..Len(st.df.rows) |->
                               dt_date(to_datetime_coerce(st.df.rows[i].date))]
             mask == [i \in 1..Len(st.df.rows) |-> date_eq(date_series[i], filter_date_dt)]
         IN  [st EXCEPT !.df.rows = Select(st.df.rows, mask),
                        !.active = Append(@, [col |-> date_col, val |-> filter_date_str])]

\* The restaurant filter (the second block of the try).
RestaurantClause(st, filter_restaurant) ==
    IF ~Truthy(filter_restaurant) THEN st
    ELSE IF restaurant_col \notin st.df.columns
    THEN [st EXCEPT !.flashes = @ \cup {"Column 'Restaurant Name' not found for filtering."}]
    ELSE LET mask == [i \in 1..Len(st.df.rows) |->
                        fillna(astype_str(st.df.rows[i].rest), "") = filter_restaurant]
         IN  [st EXCEPT !.df.rows = Select(st.df.rows, mask),
                        !.active = Append(@, [col |-> restaurant_col, val |-> filter_restaurant])]

\* The whole filtering step: the clauses in sequence, on a copy of df.
ApplyFilters(df, form) ==
    RestaurantClause(DateClause(StartFilter(df), form.filter_date), form.filter_restaurant)

\* filter_message
FilterMessage(active) ==
    IF Len(active) > 0 THEN "Filters applied" ELSE "No filters applied."

(***************************************************************************)
(* The summary of email_summary.                                           *)
(***************************************************************************)
\* The least element of a non-empty set of dates.
MinOf(S) == CHOOSE x \in S : \A y \in S : x <= y

\* The elements of a set of dates in ascending order.
RECURSIVE Ascending(_)
Ascending(S) ==
    IF S = {} THEN <<>> ELSE <<MinOf(S)>> \o Ascending(S \ {MinOf(S)})

\* As GroupBySize, had the code counted per row without grouping: one line
\* per row, in the order of the rows.
GroupBySize_PerRow(dates) ==
    [k \in 1..Len(dates) |->
       [Date |-> dates[k],
        Count |-> Cardinality({i \in 1..Len(dates) : dates[i] = dates[k]})]]

\* rows.groupby(rows[date].dt.date).size(): one line per date, the dates in
\* ascending order (groupby sorts its keys), each with its number of rows.
GroupBySize(dates) ==
    LET keys == Ascending({dates[i] : i \in 1..Len(dates)})
    IN  [k \in 1..Len(keys) |->
           [Date |-> keys[k],
            Count |-> Cardinality({i \in 1..Len(dates) : dates[i] = keys[k]})]]

\* The body of the try of email_summary: the text of the summary, as the
\* lines of its table and a note.
Summarize(df) ==
    IF date_col \in df.columns
    THEN LET converted == [i \in 1..Len(df.rows) |-> to_datetime_coerce(df.rows[i].date)]
             valid == Select(converted, [i \in 1..Len(df.rows) |-> converted[i] # NaT])
         IN  IF Len(valid) > 0
             THEN [table |-> GroupBySize([i \in 1..Len(valid) |-> dt_date(valid[i])]),
                   note |-> "", flashes |-> {}]
             ELSE [table |-> <<>>, note |-> "No valid dates found", flashes |-> {}]
    ELSE [table |-> <<>>, note |-> "Column 'Order Date' not found in the file.",
          flashes |-> {"Column 'Order Date' not found for summary."}]

(***************************************************************************)
(* Sessions, the upload folder and the helpers of the routes.              *)
(***************************************************************************)
Sessions == {"s1", "s2"}

\* A session with neither 'filename' nor 'filepath'.
NoSession == [filename |-> None, filepath |-> None]

\* The file names a browser may send.
RawNames == {"", "orders.csv", "../orders.csv", "my orders.CSV", "notes.txt", "README"}

\* '.' in filename
HasDot(filename) == filename \in {"orders.csv", "../orders.csv", "my orders.CSV", "notes.txt"}

\* filename.rsplit('.', 1)[1].lower()
ExtLower(filename) ==
    CASE filename \in {"orders.csv", "../orders.csv", "my orders.CSV"} -> "csv"
      [] filename = "notes.txt" -> "txt"
      [] OTHER -> ""

allowed_file(filename) == HasDot(filename) /\ ExtLower(filename) \in ALLOWED_EXTENSIONS

\* werkzeug's secure_filename: path separators and blanks become '_', and
\* leading dots and underscores are stripped.
secure_filename(filename) ==
    CASE filename \in {"orders.csv", "../orders.csv"} -> "orders.csv"
      [] filename = "my orders.CSV" -> "my_orders.CSV"
      [] filename = "notes.txt" -> "notes.txt"
      [] OTHER -> filename

\* os.path.join(app.config['UPLOAD_FOLDER'], filename)
UploadPath(filename) ==
    CASE filename = "orders.csv" -> "uploads/orders.csv"
      [] filename = "my_orders.CSV" -> "uploads/my_orders.CSV"
      [] OTHER -> "uploads/"

\* os.path.exists(filepath)
exists(d, filepath) == filepath \in DOMAIN d

\* file.save(filepath): the file at filepath now holds body.
save(d, filepath, body) ==
    [p \in DOMAIN d \cup {filepath} |-> IF p = filepath THEN body ELSE d[p]]

get_dataframe(d, filepath) ==
    IF ~Truthy(filepath) \/ ~exists(d, filepath) THEN NoneDf
    ELSE IF d[filepath].readable THEN read_csv(d[filepath])
    ELSE NoneDf

\* As SessionAfterPathCheck, had the code popped 'filepath' alone.
SessionAfterPathCheck_PopsPathOnly(sess, d) ==
    IF ~Truthy(sess.filepath) \/ ~exists(d, sess.filepath)
    THEN [sess EXCEPT !.filepath = None]
    ELSE sess

\* The session after the guard 'if not filepath or not os.path.exists(filepath)'
\* of display_data, email_summary and filter_action.
SessionAfterPathCheck(sess, d) ==
    IF ~Truthy(sess.filepath) \/ ~exists(d, sess.filepath) THEN NoSession ELSE sess

\* As SessionAfterLoad, had the code not popped the keys.
SessionAfterLoad_Keeps(sess, df) == sess

\* As SessionAfterLoad, had the code popped the keys whatever was read.
SessionAfterLoad_Pops(sess, df) == NoSession

\* The session after the test of what get_dataframe returned.
SessionAfterLoad(sess, df) ==
    IF df.isNone THEN NoSession ELSE sess

\* df.head(n)
head(rows, n) == SubSeq(rows, 1, IF Len(rows) < n THEN Len(rows) ELSE n)

display_rows == 50

\* What send_email_notification may come to.
MailOutcomes == {"sent", "unconfigured", "auth_failed", "disconnected", "failed"}

NoForm == [action |-> None, filter_date |-> None, filter_restaurant |-> None,
           recipient_email |-> None, filename |-> None]

\* The request handled last: which route, for which session, what it was
\* sent, how it ended, and what it computed on the way.
NoRequest ==
    [kind |-> "none", sid |-> "-", form |-> NoForm, outcome |-> "-",
     df |-> NoneDf, kept |-> <<>>, remaining |-> <<>>, num_deleted |-> 0,
     active |-> <<>>, filter_message |-> "", summary |-> <<>>,
     flashes |-> {}, steps |-> {}]

(***************************************************************************)
(* The routes, each as the session it leaves and the record of the request.*)
(***************************************************************************)
PathOk(sess, d) == Truthy(sess.filepath) /\ exists(d, sess.filepath)

\* GET /display
display_data(s, sess, d) ==
    LET req == [NoRequest EXCEPT !.kind = "display", !.sid = s]
        df  == get_dataframe(d, sess.filepath)
    IN  IF ~PathOk(sess, d)
        THEN [sess |-> SessionAfterPathCheck(sess, d),
              last |-> [req EXCEPT !.outcome = "no_file",
                                   !.flashes = {"No file has been uploaded yet, or the file was moved/deleted."}]]
        ELSE IF df.isNone
        THEN [sess |-> SessionAfterLoad(sess, df),
              last |-> [req EXCEPT !.outcome = "read_error", !.flashes = {"Error reading file."}]]
        ELSE IF Empty(df)
        THEN [sess |-> SessionAfterLoad(sess, df),
              last |-> [req EXCEPT !.outcome = "empty_file", !.df = df,
                                   !.flashes = {"File is empty or could not be read properly."}]]
        ELSE [sess |-> SessionAfterLoad(sess, df),
              last |-> [req EXCEPT !.outcome = "preview", !.df = df,
                                   !.kept = head(df.rows, display_rows),
                                   !.steps = {"preview"}]]

\* POST /email; mail is what send_email_notification comes to.
email_summary(s, sess, d, recipient, mail) ==
    LET req == [NoRequest EXCEPT !.kind = "email", !.sid = s,
                                 !.form.recipient_email = recipient]
        df  == get_dataframe(d, sess.filepath)
        sum == Summarize(df)
    IN  IF ~PathOk(sess, d)
        THEN [sess |-> SessionAfterPathCheck(sess, d),
              last |-> [req EXCEPT !.outcome = "no_file",
                                   !.flashes = {"No file uploaded or file not found. Please upload again."}]]
        ELSE IF ~Truthy(recipient)
        THEN [sess |-> sess,
              last |-> [req EXCEPT !.outcome = "no_recipient",
                                   !.flashes = {"Recipient email address is required."}]]
        ELSE IF df.isNone
        THEN [sess |-> SessionAfterLoad(sess, df),
              last |-> [req EXCEPT !.outcome = "read_error", !.flashes = {"Error reading file."}]]
        ELSE [sess |-> SessionAfterLoad(sess, df),
              last |-> [req EXCEPT !.outcome = IF mail = "sent" THEN "email_sent" ELSE "email_failed",
                                   !.df = df,
                                   !.summary = sum.table,
                                   !.filter_message = sum.note,
                                   !.flashes = sum.flashes \cup
                                       {IF mail = "sent" THEN "Summary email sent successfully!"
                                        ELSE mail},
                                   !.steps = {"summary", "email"}]]

\* The action part of filter_action, after the filtering step.
PerformAction(req, df, st, action) ==
    LET filtered_df == st.df
        msg == FilterMessage(st.active)
        indices_to_delete == index(filtered_df)
        df_after_delete == drop(df, indices_to_delete)
        done == [req EXCEPT !.df = df, !.kept = filtered_df.rows, !.active = st.active,
                            !.filter_message = msg, !.flashes = st.flashes]
    IN  IF action = "download"
        THEN IF Empty(filtered_df)
             THEN [done EXCEPT !.outcome = "download_nothing", !.steps = {"filter"},
                               !.flashes = @ \cup {"No data matched the filters. Nothing to download."}]
             ELSE [done EXCEPT !.outcome = "download_sent", !.steps = {"filter", "download"},
                               !.flashes = @ \cup {"Prepared download."}]
        ELSE IF action = "delete"
        THEN IF indices_to_delete # {}
             THEN [done EXCEPT !.outcome = "delete_shown", !.steps = {"filter", "delete"},
                               !.remaining = df_after_delete.rows,
                               !.num_deleted = Len(df.rows) - Len(df_after_delete.rows),
                               !.flashes = @ \cup {"'Deleted' rows matching filters (simulation)."}]
             ELSE [done EXCEPT !.outcome = "delete_nothing", !.steps = {"filter"},
                               !.flashes = @ \cup {"No rows matched the filters. Nothing was 'deleted'."}]
        ELSE [done EXCEPT !.outcome = "invalid_action", !.steps = {"filter"},
                          !.flashes = @ \cup {"Invalid action specified."}]

\* POST /filter_action
filter_action(s, sess, d, form) ==
    LET req == [NoRequest EXCEPT !.kind = "filter", !.sid = s,
                                 !.form.action = form.action,
                                 !.form.filter_date = form.filter_date,
                                 !.form.filter_restaurant = form.filter_restaurant]
        df  == get_dataframe(d, sess.filepath)
    IN  IF ~PathOk(sess, d)
        THEN [sess |-> SessionAfterPathCheck(sess, d),
              last |-> [req EXCEPT !.outcome = "no_file",
                                   !.flashes = {"No file uploaded or file not found. Please upload again."}]]
        ELSE IF df.isNone
        THEN [sess |-> SessionAfterLoad(sess, df),
              last |-> [req EXCEPT !.outcome = "read_error", !.flashes = {"Error reading file."}]]
        ELSE IF Empty(df)
        THEN [sess |-> SessionAfterLoad(sess, df),
              last |-> [req EXCEPT !.outcome = "empty_file", !.df = df,
                                   !.flashes = {"The file is empty. No filtering possible."}]]
        ELSE [sess |-> SessionAfterLoad(sess, df),
              last |-> PerformAction(req, df, ApplyFilters(df, form), form.action)]

\* The files a browser may send: bytes that do not read as CSV, and two
\* order lists.
OrdersA ==
    [readable |-> TRUE, header |-> {date_col, restaurant_col}, extra |-> FALSE,
     lines |-> <<[first |-> 0, date |-> "2024-01-05 08:00", rest |-> "Pizza Place"]>>]
OrdersB ==
    [readable |-> TRUE, header |-> {date_col, restaurant_col}, extra |-> FALSE,
     lines |-> <<[first |-> 0, date |-> "2024-01-06 08:00", rest |-> "Sushi Bar"],
                 [first |-> 0, date |-> "2024-01-05 10:30", rest |-> "Pizza Place"]>>]
UploadBodies == {Garbage, OrdersA, OrdersB}

\* How file.save may end: done, failed before it touched the file, or
\* failed after it had opened (and so truncated) the file.
SaveOutcomes == {"ok", "error", "partial"}

\* POST /upload; up is the 'file' part of the request (hasFile: whether the
\* request has one) and how saving it ends.
upload_file(s, sess, d, own, up) ==
    LET req == [NoRequest EXCEPT !.kind = "upload", !.sid = s,
                                 !.form.filename = up.filename]
        filename == secure_filename(up.filename)
        filepath == UploadPath(filename)
    IN  IF ~up.hasFile
        THEN [sess |-> sess, disk |-> d, owned |-> own,
              last |-> [req EXCEPT !.outcome = "no_file_part", !.form.filename = None,
                                   !.flashes = {"No file part in the request."}]]
        ELSE IF up.filename = ""
        THEN [sess |-> sess, disk |-> d, owned |-> own,
              last |-> [req EXCEPT !.outcome = "no_selection",
                                   !.flashes = {"No file selected for upload."}]]
        ELSE IF allowed_file(up.filename)
        THEN IF up.saved = "ok"
             THEN [sess |-> [filename |-> filename, filepath |-> filepath],
                   disk |-> save(d, filepath, up.body), owned |-> <<up.body>>,
                   last |-> [req EXCEPT !.outcome = "uploaded",
                                        !.flashes = {"File uploaded successfully!"}]]
             ELSE [sess |-> NoSession,
                   disk |-> IF up.saved = "partial" THEN save(d, filepath, Garbage) ELSE d,
                   owned |-> <<>>,
                   last |-> [req EXCEPT !.outcome = "save_error",
                                        !.flashes = {"Error saving file."}]]
        ELSE [sess |-> sess, disk |-> d, owned |-> own,
              last |-> [req EXCEPT !.outcome = "invalid_type",
                                   !.flashes = {"Invalid file type. Only CSV files (.csv) are allowed."}]]

(***************************************************************************)
(* The actions: one request, handled from its first line to its response.  *)
(***************************************************************************)
\* The forms of a filter_action request.
Forms == [action : ActionInputs, filter_date : DateInputs,
          filter_restaurant : RestaurantInputs]

\* A few of them, for the runs that are about the sessions and the folder.
FewForms == [action : {"download", "delete"}, filter_date : {"", "2024-01-05"},
             filter_restaurant : {"Pizza Place"}]

UploadFile(s) ==
    \E hasFile \in BOOLEAN :
    \E filename \in IF hasFile THEN RawNames ELSE {""} :
    \E body \in IF hasFile /\ allowed_file(filename) THEN UploadBodies ELSE {Garbage} :
    \E saved \in IF hasFile /\ allowed_file(filename) THEN SaveOutcomes ELSE {"ok"} :
        LET r == upload_file(s, session[s], disk, owned[s],
                             [hasFile |-> hasFile, filename |-> filename,
                              body |-> body, saved |-> saved])
        IN  /\ session' = [session EXCEPT ![s] = r.sess]
            /\ disk' = r.disk
            /\ owned' = [owned EXCEPT ![s] = r.owned]
            /\ last' = r.last

DisplayData(s) ==
    LET r == display_data(s, session[s], disk)
    IN  /\ session' = [session EXCEPT ![s] = r.sess]
        /\ last' = r.last
        /\ UNCHANGED <<disk, owned>>

EmailSummary(s) ==
    \E recipient \in RecipientInputs, mail \in MailOutcomes :
        LET r == email_summary(s, session[s], disk, recipient, mail)
        IN  /\ session' = [session EXCEPT ![s] = r.sess]
            /\ last' = r.last
            /\ UNCHANGED <<disk, owned>>

FilterRequest(s, forms) ==
    \E form \in forms :
        LET r == filter_action(s, session[s], disk, form)
        IN  /\ session' = [session EXCEPT ![s] = r.sess]
            /\ last' = r.last
            /\ UNCHANGED <<disk, owned>>

FilterAction(s) == FilterRequest(s, Forms)

\* Not a request: somebody moves or deletes a file of the upload folder.
FileRemoved ==
    \E p \in DOMAIN disk :
        /\ disk' = [q \in DOMAIN disk \ {p} |-> disk[q]]
        /\ UNCHANGED <<session, owned, last>>

(***************************************************************************)
(* Spec: a session has uploaded a file, any file of at most MaxRows lines, *)
(* and sends its next request, any request with any form; the file may be  *)
(* removed before or after it.                                             *)
(***************************************************************************)
Init ==
    \E body \in Bodies :
        /\ disk = ("uploads/orders.csv" :> body)
        /\ session = [s \in Sessions |->
                        IF s = "s1"
                        THEN [filename |-> "orders.csv", filepath |-> "uploads/orders.csv"]
                        ELSE NoSession]
        /\ owned = [s \in Sessions |-> IF s = "s1" THEN <<body>> ELSE <<>>]
        /\ last = [NoRequest EXCEPT !.kind = "upload", !.sid = "s1",
                                    !.form.filename = "orders.csv",
                                    !.outcome = "uploaded",
                                    !.flashes = {"File uploaded successfully!"}]

Display1 == last.kind = "upload" /\ DisplayData("s1")
Email1 == last.kind = "upload" /\ EmailSummary("s1")
Filter1 == last.kind = "upload" /\ FilterAction("s1")

Next ==
    \/ Display1
    \/ Email1
    \/ Filter1
    \/ FileRemoved

Spec == Init /\ [][Next]_vars

(***************************************************************************)
(* SpecUpload: two sessions that upload to the same folder and send any    *)
(* sequence of requests, starting from an empty folder.                    *)
(***************************************************************************)
InitUpload ==
    /\ disk = <<>>
    /\ session = [s \in Sessions |-> NoSession]
    /\ owned = [s \in Sessions |-> <<>>]
    /\ last = NoRequest

Upload2 == \E s \in Sessions : UploadFile(s)
Display2 == \E s \in Sessions : DisplayData(s)
Email2 == \E s \in Sessions : EmailSummary(s)
Filter2 == \E s \in Sessions : FilterRequest(s, FewForms)

NextUpload ==
    \/ Upload2
    \/ Display2
    \/ Email2
    \/ Filter2
    \/ FileRemoved

SpecUpload == InitUpload /\ [][NextUpload]_vars

(***************************************************************************)
(* Properties.                                                             *)
(***************************************************************************)
Positions(rows) == {rows[i].pos : i \in 1..Len(rows)}

\* The last request was a filter_action that loaded a table with rows and
\* went through the filtering step.
Filtered == last.kind = "filter" /\ "filter" \in last.steps

\* C1: the rows the filter kept and the rows left by the simulated delete
\* partition the table by row position: every position of the table is in
\* exactly one of the two, and no row is lost or doubled.
C1_KeptAndRemainingPartition ==
    (Filtered /\ last.outcome = "delete_shown") =>
        /\ Positions(last.kept) \cup Positions(last.remaining) = 1..Len(last.df.rows)
        /\ Positions(last.kept) \cap Positions(last.remaining) = {}
        /\ Len(last.kept) + Len(last.remaining) = Len(last.df.rows)

\* C2: a display, email or filter_action request that found the stored path
\* missing, or that get_dataframe could not read, leaves the session with
\* neither 'filename' nor 'filepath' and has run no step that needs the table.
C2_ReadFailureClearsSession ==
    (last.kind \in {"display", "email", "filter"} /\ last.outcome \in {"no_file", "read_error"}) =>
        /\ session[last.sid] = NoSession
        /\ last.steps = {}
        /\ last.kept = <<>> /\ last.remaining = <<>> /\ last.summary = <<>>

C2_Witness ==
    /\ last.kind = "filter" /\ last.outcome = "read_error"
    /\ exists(disk, "uploads/orders.csv")
    /\ session["s1"] = NoSession

\* C3: a session's stored path holds the bytes that session uploaded: no
\* upload of another session overwrites them.
C3_UploadsDoNotCollide ==
    \A s \in Sessions :
        (Truthy(session[s].filepath) /\ exists(disk, session[s].filepath) /\ owned[s] # <<>>) =>
            disk[session[s].filepath] = owned[s][1]

\* C4: a filter_action request on a readable file (the step that answers an
\* upload with the record of a filter request), whatever its action, its
\* filters and its outcome, leaves the file and the session's 'filename' and
\* 'filepath' as they were, and the file still reads as the whole table the
\* request loaded, the 'deleted' rows included.
C4_FilterKeepsPersistedState ==
    [][(/\ last.kind = "upload" /\ last'.kind = "filter"
        /\ ~get_dataframe(disk, session["s1"].filepath).isNone) =>
          /\ disk' = disk
          /\ session' = session
          /\ get_dataframe(disk', session'["s1"].filepath) = last'.df
          /\ Positions(last'.remaining) \subseteq Positions(last'.df.rows)]_vars

C4_Witness ==
    /\ Filtered /\ last.outcome = "delete_shown"
    /\ session["s1"].filepath = "uploads/orders.csv"
    /\ exists(disk, "uploads/orders.csv")
    /\ Len(get_dataframe(disk, "uploads/orders.csv").rows) > Len(last.remaining)

\* C5: with neither a date nor a restaurant supplied, the filtering step of a
\* table with rows keeps exactly its rows, in their order, and lists no
\* filter: 'No filters applied.'.
C5_NoClauseKeepsAll ==
    (/\ last.kind = "filter"
     /\ ~last.df.isNone /\ ~Empty(last.df)
     /\ last.form.filter_date \in {None, ""}
     /\ last.form.filter_restaurant \in {None, ""}) =>
        /\ last.kept = last.df.rows
        /\ last.active = <<>>
        /\ last.filter_message = "No filters applied."

C5_Witness ==
    /\ last.kind = "filter"
    /\ last.form.filter_date = "" /\ last.form.filter_restaurant = ""
    /\ Len(last.kept) >= 2
    /\ last.filter_message = "No filters applied."

\* The calendar date the program normalizes a cell of 'Order Date' to (NaT.d
\* for a cell that is missing or does not parse).
NormalizedDate(v) == dt_date(to_datetime_coerce(v))

\* A supplied text that parses as a calendar date.
DateParses(text) ==
    Truthy(text) /\ ~to_datetime_raises(text) /\ to_datetime(text) # NaT

\* The text of a cell of 'Restaurant Name' as the specification has it: a
\* missing value is the empty text.
TextOf(v) == IF v = Missing THEN "" ELSE v

\* The last request was a filter_action that loaded a table with rows.
LoadedRows == last.kind = "filter" /\ ~last.df.isNone /\ ~Empty(last.df)

\* C6: with both columns, a date that parses and a restaurant text, the rows
\* kept are the rows whose normalized date is the date given and whose
\* restaurant text is the text given, in their order, and both clauses are
\* listed, the date clause first.
C6_BothClausesKeepTheConjunction ==
    (/\ LoadedRows
     /\ {date_col, restaurant_col} \subseteq last.df.columns
     /\ DateParses(last.form.filter_date)
     /\ Truthy(last.form.filter_restaurant)) =>
        /\ last.kept =
             Select(last.df.rows,
                    [i \in 1..Len(last.df.rows) |->
                       /\ date_eq(NormalizedDate(last.df.rows[i].date),
                                  dt_date(to_datetime(last.form.filter_date)))
                       /\ TextOf(last.df.rows[i].rest) = last.form.filter_restaurant])
        /\ last.active = <<[col |-> date_col, val |-> last.form.filter_date],
                           [col |-> restaurant_col, val |-> last.form.filter_restaurant]>>

\* The sum of the counts of the lines of a summary.
RECURSIVE SumCounts(_)
SumCounts(summary) ==
    IF Len(summary) = 0 THEN 0 ELSE summary[1].Count + SumCounts(Tail(summary))

\* C7: the summary of a table with an 'Order Date' column has one line for
\* each date a row normalizes to, the dates ascending, each with the number
\* of rows of that date; the counts add up to the number of rows with a date,
\* and a row without one is counted nowhere.
C7_SummaryCountsPerDate ==
    (last.kind = "email" /\ "summary" \in last.steps /\ date_col \in last.df.columns) =>
        LET rows == last.df.rows
            nd(i) == NormalizedDate(rows[i].date)
            dated == {i \in 1..Len(rows) : nd(i) # NaT.d}
            sum == last.summary
        IN  /\ \A k, l \in 1..Len(sum) : k < l => sum[k].Date < sum[l].Date
            /\ {sum[k].Date : k \in 1..Len(sum)} = {nd(i) : i \in dated}
            /\ \A k \in 1..Len(sum) :
                  sum[k].Count = Cardinality({i \in 1..Len(rows) : nd(i) = sum[k].Date})
            /\ SumCounts(sum) = Cardinality(dated)

C7_Witness ==
    /\ last.kind = "email" /\ "summary" \in last.steps
    /\ Len(last.df.rows) = 2
    /\ last.df.rows[1].date = "2024-01-06 08:00"
    /\ last.df.rows[2].date = "2024-01-05 10:30"
    /\ last.summary = <<[Date |-> 20240105, Count |-> 1], [Date |-> 20240106, Count |-> 1]>>

\* C8: on a table with rows and an 'Order Date' column, a supplied date that
\* does not parse as a calendar date gets the 'Invalid date format' message
\* and no other, the date clause removes no row and is not listed, and the
\* restaurant clause is evaluated on the whole table.
C8_BadDateIsSignalled ==
    (/\ LoadedRows
     /\ date_col \in last.df.columns
     /\ Truthy(last.form.filter_date)
     /\ ~DateParses(last.form.filter_date)) =>
        /\ "Invalid date format entered." \in last.flashes
        /\ "Column 'Order Date' not found for filtering." \notin last.flashes
        /\ \A k \in 1..Len(last.active) : last.active[k].col # date_col
        /\ last.kept = RestaurantClause(StartFilter(last.df), last.form.filter_restaurant).df.rows

\* C9: an applied restaurant clause keeps no row whose 'Restaurant Name' is
\* missing, whatever the text asked for.
C9_MissingRestaurantNeverKept ==
    (/\ LoadedRows
     /\ Truthy(last.form.filter_restaurant)
     /\ \E k \in 1..Len(last.active) : last.active[k].col = restaurant_col) =>
        \A i \in 1..Len(last.kept) : last.kept[i].rest # Missing

\* A clause with a value whose column the loaded table does not have.
DateColumnMissing ==
    Truthy(last.form.filter_date) /\ date_col \notin last.df.columns
RestaurantColumnMissing ==
    Truthy(last.form.filter_restaurant) /\ restaurant_col \notin last.df.columns

\* What C10 says of a download or delete request whose table was loaded.
MissingColumnIsSkipped ==
    /\ DateColumnMissing =>
          /\ "Column 'Order Date' not found for filtering." \in last.flashes
          /\ \A k \in 1..Len(last.active) : last.active[k].col # date_col
          /\ last.kept = RestaurantClause(StartFilter(last.df), last.form.filter_restaurant).df.rows
    /\ RestaurantColumnMissing =>
          /\ "Column 'Restaurant Name' not found for filtering." \in last.flashes
          /\ \A k \in 1..Len(last.active) : last.active[k].col # restaurant_col
          /\ last.kept = DateClause(StartFilter(last.df), last.form.filter_date).df.rows
    /\ (DateColumnMissing \/ RestaurantColumnMissing) =>
          /\ "filter" \in last.steps
          /\ last.form.action = "download" =>
                last.outcome \in {"download_sent", "download_nothing"}
          /\ last.form.action = "delete" =>
                last.outcome \in {"delete_shown", "delete_nothing"}

\* C10 as claimed: a clause whose column the table lacks is skipped with the
\* 'not found for filtering' warning, is not listed, and the other clause and
\* the download or delete still run, for every loaded table.
C10_MissingColumnIsSkipped_Original ==
    (/\ last.kind = "filter" /\ ~last.df.isNone
     /\ last.form.action \in {"download", "delete"}) => MissingColumnIsSkipped

\* C10 as amended: the same, for every loaded table that has at least one row.
C10_MissingColumnIsSkipped ==
    (LoadedRows /\ last.form.action \in {"download", "delete"}) => MissingColumnIsSkipped

C10_Witness ==
    /\ LoadedRows /\ DateColumnMissing
    /\ last.form.action = "download" /\ last.outcome = "download_sent"
    /\ last.active = <<[col |-> restaurant_col, val |-> "Pizza Place"]>>
    /\ Len(last.kept) < Len(last.df.rows)

\* The ways upload_file turns a request down.
Rejected == {"no_file_part", "no_selection", "invalid_type"}

\* The reference an accepted upload of the file name raw writes.
ReferenceOf(raw) ==
    [filename |-> secure_filename(raw), filepath |-> UploadPath(secure_filename(raw))]

\* C11: a session holds at most one upload reference: 'filename' and
\* 'filepath' are both absent or both present; a present reference is the one
\* the session's most recent successful upload wrote (a successful upload
\* leaves its name and path in the session, and a reference changes only by
\* such an upload of that session or by being removed); and a rejected upload
\* leaves the references as they were.
C11_OneUploadReference ==
    /\ [](\A s \in Sessions :
            (session[s].filename = None) <=> (session[s].filepath = None))
    /\ []((last.kind = "upload" /\ last.outcome = "uploaded") =>
            session[last.sid] = ReferenceOf(last.form.filename))
    /\ [][\A s \in Sessions :
            session'[s] # session[s] =>
               \/ session'[s] = NoSession
               \/ /\ last'.kind = "upload" /\ last'.sid = s /\ last'.outcome = "uploaded"
                  /\ session'[s] = ReferenceOf(last'.form.filename)]_vars
    /\ [][(last'.kind = "upload" /\ last'.outcome \in Rejected) =>
            session' = session]_vars

C11_Witness ==
    /\ last.kind = "upload" /\ last.sid = "s1" /\ last.outcome = "invalid_type"
    /\ session["s1"] = [filename |-> "my_orders.CSV", filepath |-> "uploads/my_orders.CSV"]
    /\ exists(disk, "uploads/orders.csv")
    /\ exists(disk, "uploads/my_orders.CSV")

====
